---- MODULE Spec2Model ----
(***************************************************************************)
(* State-machine model of the landio gameplay core (Bevy ECS):             *)
(* the Update schedule of src/main.rs with its systems player_input_system,*)
(* start_trail_system, player_movement_system, collision_detection_system, *)
(* handle_player_death, claim_territory_system and init_player_territory.  *)
(*                                                                         *)
(* One frame (tick) runs every system of the schedule once.  The systems   *)
(* are registered as a plain tuple (no .chain(), no before/after), so the  *)
(* schedule fixes no order between them: any system that has not run yet   *)
(* in the frame may run next.  Commands (insert_resource, entity insert)   *)
(* are deferred and applied when the schedule ends.                        *)
(*                                                                         *)
(* Positions are kept on an integer lattice: one tile is TileUnits lattice *)
(* units wide, the origin is the grid's lower-left corner, and a tile's    *)
(* centre is the lattice point TileUnits/2 inside it.                      *)
(***************************************************************************)
EXTENDS Integers, Sequences, FiniteSets, TLC

\* ----------------------------------------------------------------------
\* Bounds of the model
\* ----------------------------------------------------------------------
GridWidth == 12         \* grid_width  (40 in GridSettings::default)
GridHeight == 5         \* grid_height (30 in GridSettings::default)
HalfSlots == 1          \* a tile holds 2*HalfSlots+1 player positions per axis
MaxTicks == 3           \* frames explored under every execution order
MaxTicksListed == 10    \* frames explored under the order of registration
MaxDeathEvents == 1     \* PlayerDeathEvents sent in one behaviour
MaxPainted == 4         \* tiles painted in the initial grids of SpecClaim
PaintColumns == 2       \* columns left of the starting block that are painted
MaxTicksScenario == 22  \* frames of the scripted scenarios
MatchFrames == 2        \* frames that make up the match duration of the timer
MaxTicksFine == 7       \* frames explored with varying frame times
StepUnits == 2          \* lattice units of the shortest per-frame displacement
EntryColumns == 2       \* columns of the area painted in SpecEntry
MaxTrailPainted == 22   \* trail tiles painted in the initial grids of SpecCollision
MaxPaintedDeath == 3    \* tiles painted in the initial grids of SpecDeath
MaxFloodWidth == 4      \* widest grid of the flood fill taken pop by pop
MaxFloodHeight == 3     \* highest grid of the flood fill taken pop by pop
MaxTicksPair == 3       \* frames explored with a second player
MaxPaintedPair == 2     \* tiles painted in the initial grids of SpecPair
MaxPaintedEntry == 4    \* tiles painted in the initial grids of SpecEntry

\* ----------------------------------------------------------------------
\* Program constants
\* ----------------------------------------------------------------------
TileSize == 20          \* tile_size, pixels
TerritoryRadius == 2    \* territory_radius
MinTrailCount == 20     \* collision check needs this many trail tiles
UsizeMax == 2147483647  \* stands for usize::MAX, the result of 0.wrapping_sub(1)

PlayerEntity == "player"
OtherEntity == "other"
\* Option values: Nothing is Option::None, Some(v) is Option::Some(v)
Nothing == <<>>
Some(v) == <<v>>

\* Option<Entity> of Tile.owner and CompleteTrail.player: no entity
NoEntity == "none"

\* the systems of the Update schedule that touch players, tiles or the
\* CompleteTrail resource, in the order of their registration
Registration ==
  <<"input", "start_trail", "movement", "collision", "death", "claim",
    "timer", "init">>

Systems == {Registration[i] : i \in DOMAIN Registration}

Zero == <<0, 0>>
Cardinals == {<<0, 1>>, <<0, -1>>, <<-1, 0>>, <<1, 0>>}
Keys == {"up", "down", "left", "right"}

Coords == (0 .. GridWidth - 1) \X (0 .. GridHeight - 1)

\* lattice units per tile; the centre of a tile is TileUnits \div 2 inside it
TileUnits == 2 * (2 * HalfSlots + 1)

VARIABLES
  tiles,          \* [Coords -> [owner, is_trail]]   Tile components
  player,         \* the Player component of the one player entity
  transform,      \* <<x, y>> of the player's Transform, lattice units
  complete_trail, \* the CompleteTrail resource, or None while not inserted
  commands,       \* deferred commands of the running frame
  death_events,   \* unread PlayerDeathEvents
  deaths_sent,    \* number of PlayerDeathEvents sent so far
  has_run,        \* state of run_once() guarding init_player_territory
  ran,            \* systems that have run in the current frame
  tick,           \* completed frames
  sched,          \* "free": any order; "listed": the order of registration;
                  \* "scenario": the order of registration, scripted keys;
                  \* "fine": the order of registration, varying frame times;
                  \* "pair": the order of registration, a second player
  game_state,     \* the GameState resource: game_running and the timer
  last,           \* what the last step did (history, read only by properties)
  frame_log,      \* what happened in the current frame (history)
  flood           \* a flood fill of the claimer taken pop by pop: its grid,
                  \* fill_grid and queue, and a log of its pushes and reads

vars ==
  <<tiles, player, transform, complete_trail, commands, death_events,
    deaths_sent, has_run, ran, tick, sched, game_state, last, frame_log,
    flood>>

\* per-frame displacement speed * delta_secs * tile_size, in lattice units:
\* one whole tile; under "fine" the frame time varies, and the displacement
\* is a third of a tile, two thirds of a tile or a whole tile
FineSteps == {StepUnits, 2 * StepUnits, TileUnits}

Steps == IF sched = "fine" THEN FineSteps ELSE {TileUnits}

\* ----------------------------------------------------------------------
\* Geometry helpers
\* ----------------------------------------------------------------------
Abs(n) == IF n < 0 THEN -n ELSE n

Clamp(n, lo, hi) == IF n < lo THEN lo ELSE IF n > hi THEN hi ELSE n

\* ((translation + half_width) / tile_size).floor() as i32
TileOf(pos) == <<pos[1] \div TileUnits, pos[2] \div TileUnits>>

\* (x as f32 * tile_size) - half_width + (tile_size / 2.0)
TileCenter(t) ==
  <<t[1] * TileUnits + (TileUnits \div 2), t[2] * TileUnits + (TileUnits \div 2)>>

CenterTile == <<GridWidth \div 2, GridHeight \div 2>>

DistSq(p, q) == (p[1] - q[1]) * (p[1] - q[1]) + (p[2] - q[2]) * (p[2] - q[2])

InGrid(t) ==
  /\ t[1] >= 0 /\ t[1] < GridWidth
  /\ t[2] >= 0 /\ t[2] < GridHeight

\* dx <= territory_radius && dy <= territory_radius
InStartBlock(t) ==
  /\ Abs(t[1] - CenterTile[1]) <= TerritoryRadius
  /\ Abs(t[2] - CenterTile[2]) <= TerritoryRadius

EmptyTile == [owner |-> NoEntity, is_trail |-> FALSE]

IsTerritoryOf(ts, t, e) == InGrid(t) /\ ts[t].owner = e /\ ~ts[t].is_trail

IsTrailOf(ts, t, e) == InGrid(t) /\ ts[t].owner = e /\ ts[t].is_trail

\* ----------------------------------------------------------------------
\* Initial state: setup_game has run (Startup schedule)
\* ----------------------------------------------------------------------
Idle == [sys |-> "other"]

\* history of a frame: the pairs <<tile, phase>> of the tiles changed in it
NewFrame == [died |-> FALSE, claimed |-> FALSE, writers |-> {}]

\* GameState::default(): the timer has not ticked, the game is not running
NewGameState == [game_running |-> FALSE, elapsed |-> 0]

\* the frame's history after a phase has turned the tiles ts into ts2
Written(log, phase, ts, ts2) ==
  [log EXCEPT !.writers =
     @ \cup {<<t, phase>> : t \in {u \in Coords : ts[u] # ts2[u]}}]

\* no flood fill is being followed
NoFlood == [phase |-> "none"]

Setup ==
  /\ tiles = [t \in Coords |-> EmptyTile]
  /\ player = [direction |-> Zero,
               buffered_direction |-> Nothing,
               score |-> 0,
               is_drawing_trail |-> FALSE,
               last_tile_pos |-> CenterTile,
               is_moving_to_next_tile |-> FALSE]
  /\ transform = TileCenter(CenterTile)
  /\ complete_trail = Nothing
  /\ commands = <<>>
  /\ death_events = <<>>
  /\ deaths_sent = 0
  /\ has_run = FALSE
  /\ ran = {}
  /\ tick = 0
  /\ game_state = NewGameState
  /\ last = Idle
  /\ frame_log = NewFrame
  /\ flood = NoFlood

Init == Setup /\ sched = "free"

InitListed == Setup /\ sched = "listed"

TickLimit ==
  IF sched = "listed" THEN MaxTicksListed
  ELSE IF sched = "fine" THEN MaxTicksFine
  ELSE IF sched = "pair" THEN MaxTicksPair
  ELSE IF sched = "scenario" THEN MaxTicksScenario
  ELSE MaxTicks

\* a system may run when the frame is open and it has not run in it yet;
\* under "listed" and "scenario" the systems registered before it have run.
\* game_timer_system writes only GameState, which no other system reads or
\* writes, so its place in the order changes nothing: it is always taken at
\* its place in the registration.
CanRun(s) ==
  /\ tick < TickLimit
  /\ s \notin ran
  /\ (sched # "free" \/ s = "timer") =>
       \A i, j \in DOMAIN Registration :
         (Registration[j] = s /\ i < j /\ (Registration[i] # "init" \/ ~has_run))
           => Registration[i] \in ran

\* ----------------------------------------------------------------------
\* player_input_system
\* ----------------------------------------------------------------------
\* mutant: the vectors of the pressed keys are added
NewDirectionAdds(pressed) ==
  <<(IF "right" \in pressed THEN 1 ELSE 0) - (IF "left" \in pressed THEN 1 ELSE 0),
    (IF "up" \in pressed THEN 1 ELSE 0) - (IF "down" \in pressed THEN 1 ELSE 0)>>

\* later keys override earlier ones: up, then down, then left, then right
NewDirection(pressed) ==
  IF "right" \in pressed THEN <<1, 0>>
  ELSE IF "left" \in pressed THEN <<-1, 0>>
  ELSE IF "down" \in pressed THEN <<0, -1>>
  ELSE IF "up" \in pressed THEN <<0, 1>>
  ELSE Zero

\* mutant: only vertical reversals are recognised
IsOppositeVerticalOnly(cur, new) ==
  cur[2] # 0 /\ new[2] = -cur[2]

IsOpposite(cur, new) ==
  \/ (cur[1] # 0 /\ new[1] = -cur[1])
  \/ (cur[2] # 0 /\ new[2] = -cur[2])

\* mutant: a direction is applied at once, also in the middle of a tile
InputPlayerAppliesAtOnce(p, pressed) ==
  LET nd == NewDirection(pressed) IN
  IF nd = Zero THEN p
  ELSE IF IsOpposite(p.direction, nd) THEN p
  ELSE [p EXCEPT !.direction = nd, !.buffered_direction = Nothing]

InputPlayer(p, pressed) ==
  LET nd == NewDirection(pressed) IN
  IF nd = Zero THEN p
  ELSE IF IsOpposite(p.direction, nd) THEN p
  ELSE IF p.is_moving_to_next_tile /\ p.direction # Zero
       THEN [p EXCEPT !.buffered_direction = Some(nd)]
       ELSE [p EXCEPT !.direction = nd, !.buffered_direction = Nothing]

PlayerInputSystem ==
  /\ CanRun("input")
  /\ \E pressed \in SUBSET Keys :
       /\ player' = InputPlayer(player, pressed)
       /\ last' = [sys |-> "input", new_direction |-> NewDirection(pressed)]
  /\ ran' = ran \cup {"input"}
  /\ UNCHANGED <<tiles, transform, complete_trail, commands, death_events,
                 deaths_sent, has_run, tick, sched, flood, game_state, frame_log>>

\* ----------------------------------------------------------------------
\* start_trail_system
\* ----------------------------------------------------------------------
\* mutant: marks the trail flag and forgets the owner
StartTrailNoOwner(ts, p, pos) ==
  IF p.direction # Zero /\ ~p.is_drawing_trail
  THEN LET cur == TileOf(pos) IN
       IF InGrid(cur)
       THEN IF ts[cur].owner = PlayerEntity /\ ~ts[cur].is_trail
            THEN [tiles |-> ts, player |-> p]
            ELSE [tiles |-> [ts EXCEPT ![cur].is_trail = TRUE],
                  player |-> [p EXCEPT !.is_drawing_trail = TRUE]]
       ELSE [tiles |-> ts, player |-> [p EXCEPT !.is_drawing_trail = TRUE]]
  ELSE [tiles |-> ts, player |-> p]

StartTrail(ts, p, pos) ==
  IF p.direction # Zero /\ ~p.is_drawing_trail
  THEN LET cur == TileOf(pos) IN
       IF InGrid(cur)
       THEN IF ts[cur].owner = PlayerEntity /\ ~ts[cur].is_trail
            THEN [tiles |-> ts, player |-> p]
            ELSE [tiles |-> [ts EXCEPT ![cur] =
                               [owner |-> PlayerEntity, is_trail |-> TRUE]],
                  player |-> [p EXCEPT !.is_drawing_trail = TRUE]]
       ELSE [tiles |-> ts, player |-> [p EXCEPT !.is_drawing_trail = TRUE]]
  ELSE [tiles |-> ts, player |-> p]

StartTrailSystem ==
  /\ CanRun("start_trail")
  /\ \E r \in {StartTrail(tiles, player, transform)} :
     /\ tiles' = r.tiles
     /\ player' = r.player
     /\ frame_log' = Written(frame_log, "movement", tiles, r.tiles)
  /\ ran' = ran \cup {"start_trail"}
  /\ last' = Idle
  /\ UNCHANGED <<transform, complete_trail, commands, death_events,
                 deaths_sent, has_run, tick, sched, flood, game_state>>

\* ----------------------------------------------------------------------
\* player_movement_system
\* ----------------------------------------------------------------------
InsertCompleteTrail(entry) ==
  [kind |-> "insert_resource",
   value |-> [player |-> PlayerEntity, complete |-> TRUE,
              entry_point |-> entry, raised |-> tick]]

\* distance_to_center < 0.5
AtTileCenter(pos) ==
  4 * DistSq(pos, TileCenter(TileOf(pos))) * TileSize * TileSize
    < TileUnits * TileUnits

\* mutant: sets the trail flag and leaves the owner as it is
MarkTrailKeepsOwner(ts, cur) ==
  [ts EXCEPT ![cur].is_trail = TRUE]

\* tile.is_trail = true; tile.owner = Some(entity)
MarkTrail(ts, cur) ==
  [ts EXCEPT ![cur] = [owner |-> PlayerEntity, is_trail |-> TRUE]]

\* mutant: the tile is marked without looking at the drawing state
ArriveAtTileMarksAlways(ts, p, cur) ==
  LET p1 == [p EXCEPT !.is_moving_to_next_tile = TRUE,
                      !.last_tile_pos = cur,
                      !.direction = IF p.buffered_direction # Nothing
                                    THEN p.buffered_direction[1] ELSE @,
                      !.buffered_direction = Nothing]
      current_is_territory == IsTerritoryOf(ts, cur, PlayerEntity)
      next == <<cur[1] + p1.direction[1], cur[2] + p1.direction[2]>>
      next_is_territory == IsTerritoryOf(ts, next, PlayerEntity)
      p2 == IF /\ InGrid(next)
               /\ current_is_territory
               /\ ~next_is_territory
               /\ ~p1.is_drawing_trail
            THEN [p1 EXCEPT !.is_drawing_trail = TRUE]
            ELSE p1
  IN IF ~InGrid(cur)
     THEN [tiles |-> ts, player |-> p2, cmds |-> <<>>]
     ELSE IF /\ ts[cur].owner = PlayerEntity
             /\ ~ts[cur].is_trail
             /\ p2.is_drawing_trail
     THEN [tiles |-> ts,
           player |-> [p2 EXCEPT !.is_drawing_trail = FALSE],
           cmds |-> <<InsertCompleteTrail(Some(cur))>>]
     ELSE IF ~current_is_territory
     THEN [tiles |-> MarkTrail(ts, cur), player |-> p2, cmds |-> <<>>]
     ELSE [tiles |-> ts, player |-> p2, cmds |-> <<>>]

\* the tile-centre arrival block
ArriveAtTile(ts, p, cur) ==
  LET p1 == [p EXCEPT !.is_moving_to_next_tile = TRUE,
                      !.last_tile_pos = cur,
                      !.direction = IF p.buffered_direction # Nothing
                                    THEN p.buffered_direction[1] ELSE @,
                      !.buffered_direction = Nothing]
      current_is_territory == IsTerritoryOf(ts, cur, PlayerEntity)
      next == <<cur[1] + p1.direction[1], cur[2] + p1.direction[2]>>
      next_is_territory == IsTerritoryOf(ts, next, PlayerEntity)
      p2 == IF /\ InGrid(next)
               /\ current_is_territory
               /\ ~next_is_territory
               /\ ~p1.is_drawing_trail
            THEN [p1 EXCEPT !.is_drawing_trail = TRUE]
            ELSE p1
  IN IF ~InGrid(cur)
     THEN [tiles |-> ts, player |-> p2, cmds |-> <<>>]
     ELSE IF /\ ts[cur].owner = PlayerEntity
             /\ ~ts[cur].is_trail
             /\ p2.is_drawing_trail
     THEN [tiles |-> ts,
           player |-> [p2 EXCEPT !.is_drawing_trail = FALSE],
           cmds |-> <<InsertCompleteTrail(Some(cur))>>]
     ELSE IF p2.is_drawing_trail /\ ~current_is_territory
     THEN [tiles |-> MarkTrail(ts, cur), player |-> p2, cmds |-> <<>>]
     ELSE [tiles |-> ts, player |-> p2, cmds |-> <<>>]

\* mutant: the position is integrated and never clamped
ApplyMovementNoClamp(p, pos, step) ==
  [player |-> p,
   transform |-> <<pos[1] + p.direction[1] * step, pos[2] + p.direction[2] * step>>]

\* smooth movement and the clamp to the grid
ApplyMovement(p, pos, step) ==
  LET moved == <<pos[1] + p.direction[1] * step, pos[2] + p.direction[2] * step>>
      new == TileOf(moved)
      constrained == <<Clamp(new[1], 0, GridWidth - 1),
                       Clamp(new[2], 0, GridHeight - 1)>>
  IN IF constrained # new
     THEN [player |-> [p EXCEPT !.is_moving_to_next_tile = FALSE],
           transform |-> TileCenter(constrained)]
     ELSE [player |-> p, transform |-> moved]

TrailNeighborCount(ts, t) ==
  Cardinality({n \in {<<t[1] + 1, t[2]>>, <<t[1] - 1, t[2]>>,
                      <<t[1], t[2] + 1>>, <<t[1], t[2] - 1>>} :
                 IsTrailOf(ts, n, PlayerEntity)})

\* mutant: only a trail tile with all four neighbours on the trail counts
HasLoopAllFour(ts) ==
  \E t \in Coords :
    IsTrailOf(ts, t, PlayerEntity) /\ TrailNeighborCount(ts, t) > 3

HasLoop(ts) ==
  \E t \in Coords :
    IsTrailOf(ts, t, PlayerEntity) /\ TrailNeighborCount(ts, t) > 2

Movement(ts, p, pos, step) ==
  LET cur == TileOf(pos)
      arrives == \/ AtTileCenter(pos)
                 \/ (~p.is_moving_to_next_tile /\ cur # p.last_tile_pos)
      a == IF p.direction # Zero /\ arrives
           THEN ArriveAtTile(ts, p, cur)
           ELSE [tiles |-> ts, player |-> p, cmds |-> <<>>]
      m == IF p.direction # Zero
           THEN ApplyMovement(a.player, pos, step)
           ELSE [player |-> p, transform |-> pos]
      loop == m.player.is_drawing_trail /\ HasLoop(a.tiles)
  IN [tiles |-> a.tiles,
      player |-> IF loop THEN [m.player EXCEPT !.is_drawing_trail = FALSE]
                 ELSE m.player,
      transform |-> m.transform,
      cmds |-> IF loop THEN a.cmds \o <<InsertCompleteTrail(Nothing)>> ELSE a.cmds,
      arrived |-> p.direction # Zero /\ arrives,
      applied |-> IF p.direction # Zero /\ arrives
                  THEN p.buffered_direction ELSE Nothing]

PlayerMovementSystem ==
  /\ CanRun("movement")
  /\ \E step \in Steps :
       \E r \in {Movement(tiles, player, transform, step)} :
       /\ tiles' = r.tiles
       /\ player' = r.player
       /\ transform' = r.transform
       /\ commands' = commands \o r.cmds
       /\ frame_log' = Written(frame_log, "movement", tiles, r.tiles)
       /\ last' = [sys |-> "movement", arrived |-> r.arrived,
                    applied |-> r.applied]
  /\ ran' = ran \cup {"movement"}
  /\ UNCHANGED <<complete_trail, death_events, deaths_sent, has_run, tick,
                 sched, flood, game_state>>

\* ----------------------------------------------------------------------
\* game_timer_system
\* ----------------------------------------------------------------------
\* timer.tick(delta) of a TimerMode::Once timer, one frame of time
TimerTick(elapsed) ==
  IF elapsed + 1 > MatchFrames THEN MatchFrames ELSE elapsed + 1

\* timer.finished()
TimerFinished(elapsed) == elapsed >= MatchFrames

GameTimer(gs) ==
  IF gs.game_running
  THEN LET e == TimerTick(gs.elapsed) IN
       [game_running |-> ~TimerFinished(e), elapsed |-> e]
  ELSE gs

GameTimerSystem ==
  /\ CanRun("timer")
  /\ game_state' = GameTimer(game_state)
  /\ ran' = ran \cup {"timer"}
  /\ last' = Idle
  /\ UNCHANGED <<tiles, player, transform, complete_trail, commands,
                 death_events, deaths_sent, has_run, tick, sched, flood, frame_log>>

\* ----------------------------------------------------------------------
\* init_player_territory, run_if(run_once())
\* ----------------------------------------------------------------------
\* mutant: the block of radius 1 is given to the player
InitTerritoryTilesSmall(ts) ==
  [t \in Coords |->
     IF Abs(t[1] - CenterTile[1]) <= 1 /\ Abs(t[2] - CenterTile[2]) <= 1
     THEN [ts[t] EXCEPT !.owner = PlayerEntity] ELSE ts[t]]

InitTerritoryTiles(ts) ==
  [t \in Coords |->
     IF InStartBlock(t) THEN [ts[t] EXCEPT !.owner = PlayerEntity] ELSE ts[t]]

InitPlayerTerritory ==
  /\ CanRun("init")
  /\ ~has_run
  /\ has_run' = TRUE
  /\ tiles' = InitTerritoryTiles(tiles)
  /\ player' = [player EXCEPT !.score =
                  (TerritoryRadius * 2 + 1) * (TerritoryRadius * 2 + 1)]
  /\ frame_log' = Written(frame_log, "init", tiles, InitTerritoryTiles(tiles))
  /\ ran' = ran \cup {"init"}
  /\ last' = Idle
  /\ UNCHANGED <<transform, complete_trail, commands, death_events,
                 deaths_sent, tick, sched, flood, game_state>>

\* ----------------------------------------------------------------------
\* collision_detection_system and kill_player
\* ----------------------------------------------------------------------
TrailTiles(ts, e) == {t \in Coords : IsTrailOf(ts, t, e)}

\* mutant: only the current tile is never checked
RecentPositionCurrentOnly(t, cur) == t = cur

\* the current tile and its immediate neighbours are never checked
RecentPosition(t, cur) == Abs(t[1] - cur[1]) <= 1 /\ Abs(t[2] - cur[2]) <= 1

\* distance < tile_size * 0.75
TooClose(pos, t) ==
  16 * DistSq(pos, TileCenter(t)) < 9 * TileUnits * TileUnits

\* mutant: any trail tile of the player that is near kills, whatever the
\* drawing flag, the length of the trail and the age of the tile
PlayerToKillAnyTrail(ts, p, pos) ==
  \E t \in TrailTiles(ts, PlayerEntity) : TooClose(pos, t)

PlayerToKill(ts, p, pos) ==
  /\ p.is_drawing_trail
  /\ Cardinality(TrailTiles(ts, PlayerEntity)) >= MinTrailCount
  /\ \E t \in TrailTiles(ts, PlayerEntity) :
       ~RecentPosition(t, TileOf(pos)) /\ TooClose(pos, t)

\* Transform::from_translation(Vec3::new(0.0, 0.0, 0.0))
WorldOrigin == <<(GridWidth * TileUnits) \div 2, (GridHeight * TileUnits) \div 2>>

KillPlayer(ts, p) ==
  [tiles |-> [t \in Coords |->
                IF ts[t].owner = PlayerEntity THEN EmptyTile ELSE ts[t]],
   player |-> [p EXCEPT !.is_drawing_trail = FALSE, !.score = 0],
   cmds |-> <<[kind |-> "insert_transform", value |-> WorldOrigin]>>]

CollisionDetectionSystem ==
  /\ CanRun("collision")
  /\ IF PlayerToKill(tiles, player, transform)
     THEN \E r \in {KillPlayer(tiles, player)} :
          /\ tiles' = r.tiles
          /\ player' = r.player
          /\ commands' = commands \o r.cmds
          /\ last' = [sys |-> "collision", killed |-> TRUE]
          /\ frame_log' = [Written(frame_log, "collision", tiles, r.tiles)
                              EXCEPT !.died = TRUE]
     ELSE /\ UNCHANGED <<tiles, player, commands, frame_log>>
          /\ last' = Idle
  /\ ran' = ran \cup {"collision"}
  /\ UNCHANGED <<transform, complete_trail, death_events, deaths_sent,
                 has_run, tick, sched, flood, game_state>>

\* ----------------------------------------------------------------------
\* PlayerDeathEvent and handle_player_death
\* ----------------------------------------------------------------------
DeathReasons == {"TrailCollision", "CrossedTrail", "OutOfBounds", "HitOtherPlayer"}

\* An event writer sends a PlayerDeathEvent for the player.  No system of
\* the Update schedule writes the event, so the writer runs between frames.
SendDeathEvent ==
  /\ tick < TickLimit
  /\ ran = {}
  /\ deaths_sent < MaxDeathEvents
  /\ \E reason \in DeathReasons :
       death_events' = Append(death_events,
                          [player_entity |-> PlayerEntity, reason |-> reason])
  /\ deaths_sent' = deaths_sent + 1
  /\ last' = Idle
  /\ UNCHANGED <<tiles, player, transform, complete_trail, commands, has_run,
                 ran, tick, sched, flood, game_state, frame_log>>

\* "First, explicitly cancel any pending territory claiming operations"
CancelClaim(ct) ==
  IF ct = Nothing THEN Nothing
  ELSE Some([ct[1] EXCEPT !.complete = FALSE, !.player = NoEntity,
                          !.entry_point = Nothing])

\* mutant: the reset leaves the trail tiles of the player
ReleaseTilesKeepsTrail(ts, e) ==
  [t \in Coords |->
     IF ts[t].owner = e /\ ~ts[t].is_trail THEN EmptyTile ELSE ts[t]]

\* "Now reset ALL player tiles based on the grid"
ReleaseTiles(ts, e) ==
  [t \in Coords |-> IF ts[t].owner = e THEN EmptyTile ELSE ts[t]]

\* mutant: grants a block of radius 1
GrantTilesSmall(ts, e) ==
  [t \in Coords |->
     IF /\ Abs(t[1] - CenterTile[1]) <= 1
        /\ Abs(t[2] - CenterTile[2]) <= 1
        /\ ts[t].owner = NoEntity
     THEN [owner |-> e, is_trail |-> FALSE]
     ELSE ts[t]]

\* "Give player initial territory just like at first spawn"
GrantTiles(ts, e) ==
  [t \in Coords |->
     IF InStartBlock(t) /\ ts[t].owner = NoEntity
     THEN [owner |-> e, is_trail |-> FALSE]
     ELSE ts[t]]

\* mutant: the score is the size of the starting block
GrantedCountWholeBlock(ts) ==
  Cardinality({t \in Coords : InStartBlock(t)})

\* "initial_territory_count += 1", once for every tile that is granted
GrantedCount(ts) ==
  Cardinality({t \in Coords : InStartBlock(t) /\ ts[t].owner = NoEntity})

\* the body of the loop over the death events, for the player's entity
ResetPlayer(ts, p) ==
  LET released == ReleaseTiles(ts, PlayerEntity) IN
  [tiles |-> GrantTiles(released, PlayerEntity),
   player |-> [p EXCEPT !.is_drawing_trail = FALSE,
                        !.buffered_direction = Nothing,
                        !.direction = Zero,
                        !.last_tile_pos = CenterTile,
                        !.score = GrantedCount(released)],
   cmds |-> <<[kind |-> "insert_transform", value |-> TileCenter(CenterTile)]>>]

RECURSIVE HandleDeathEvents(_, _, _)
HandleDeathEvents(events, ts, p) ==
  IF events = <<>> THEN [tiles |-> ts, player |-> p, cmds |-> <<>>]
  ELSE LET r == ResetPlayer(ts, p)
           rest == HandleDeathEvents(Tail(events), r.tiles, r.player)
       IN [tiles |-> rest.tiles, player |-> rest.player,
           cmds |-> r.cmds \o rest.cmds]

HandlePlayerDeath ==
  /\ CanRun("death")
  /\ IF death_events = <<>>
     THEN /\ UNCHANGED <<tiles, player, complete_trail, commands, frame_log>>
          /\ last' = Idle
     ELSE \E r \in {HandleDeathEvents(death_events, tiles, player)} :
          /\ complete_trail' = CancelClaim(complete_trail)
          /\ tiles' = r.tiles
          /\ player' = r.player
          /\ commands' = commands \o r.cmds
          /\ last' = [sys |-> "death", handled |-> Len(death_events)]
          /\ frame_log' = [Written(frame_log, "death", tiles, r.tiles)
                              EXCEPT !.died = TRUE]
  /\ death_events' = <<>>
  /\ ran' = ran \cup {"death"}
  /\ UNCHANGED <<transform, deaths_sent, has_run, tick, sched, flood, game_state>>

\* ----------------------------------------------------------------------
\* claim_territory_system
\* ----------------------------------------------------------------------
\* Step 1: 0 = empty, 1 = player territory, 2 = trail, 3 = other player
GridClass(ts, e, t) ==
  IF ts[t].owner = e THEN (IF ts[t].is_trail THEN 2 ELSE 1)
  ELSE IF ts[t].owner # NoEntity THEN 3
  ELSE 0

\* Step 2: fill_grid, as the set of cells marked true
BlockedCells(ts, e) == {t \in Coords : GridClass(ts, e, t) > 0}

\* Step 3: the edge cells in the order the two loops visit them, for a
\* grid of w by h cells; the range 1..grid_height - 1 is empty for h <= 2
EdgeCellsOf(w, h) ==
  [i \in 1 .. 2 * w |->
     <<(i - 1) \div 2, IF i % 2 = 1 THEN 0 ELSE h - 1>>]
  \o
  (IF 1 < h - 1
   THEN [i \in 1 .. 2 * (h - 2) |->
           <<IF i % 2 = 1 THEN 0 ELSE w - 1, 1 + ((i - 1) \div 2)>>]
   ELSE <<>>)

EdgeCells == EdgeCellsOf(GridWidth, GridHeight)

RECURSIVE SeedEdges(_, _, _)
SeedEdges(cells, queue, fill) ==
  IF cells = <<>> THEN [queue |-> queue, fill |-> fill]
  ELSE LET c == Head(cells) IN
       IF c \notin fill
       THEN SeedEdges(Tail(cells), Append(queue, c), fill \cup {c})
       ELSE SeedEdges(Tail(cells), queue, fill)

\* mutant: the subtraction of a signed integer
SignedSub1(n) == n - 1

\* usize::wrapping_sub(1)
WrappingSub1(n) == IF n = 0 THEN UsizeMax ELSE n - 1

\* mutant: the neighbour to the right is not visited
NeighborsNoRight(c) ==
  << <<WrappingSub1(c[1]), c[2]>>,
     <<c[1], c[2] + 1>>, <<c[1], WrappingSub1(c[2])>> >>

Neighbors(c) ==
  << <<c[1] + 1, c[2]>>, <<WrappingSub1(c[1]), c[2]>>,
     <<c[1], c[2] + 1>>, <<c[1], WrappingSub1(c[2])>> >>

\* nx < grid_width && ny < grid_height && !fill_grid[ny][nx], for a grid
\* of w by h cells
RECURSIVE VisitNeighborsIn(_, _, _, _, _)
VisitNeighborsIn(ns, queue, fill, w, h) ==
  IF ns = <<>> THEN [queue |-> queue, fill |-> fill]
  ELSE LET n == Head(ns) IN
       IF n[1] < w /\ n[2] < h /\ n \notin fill
       THEN VisitNeighborsIn(Tail(ns), Append(queue, n), fill \cup {n}, w, h)
       ELSE VisitNeighborsIn(Tail(ns), queue, fill, w, h)

VisitNeighbors(ns, queue, fill) ==
  VisitNeighborsIn(ns, queue, fill, GridWidth, GridHeight)

\* while let Some((x, y)) = queue.pop()
RECURSIVE FloodFill(_, _)
FloodFill(queue, fill) ==
  IF queue = <<>> THEN fill
  ELSE LET c == queue[Len(queue)]
           r == VisitNeighbors(Neighbors(c), SubSeq(queue, 1, Len(queue) - 1), fill)
       IN FloodFill(r.queue, r.fill)

FillGrid(ts, e) ==
  LET seeded == SeedEdges(EdgeCells, <<>>, BlockedCells(ts, e))
  IN FloodFill(seeded.queue, seeded.fill)

\* Step 4: empty cells the flood fill did not reach
InsideCells(ts, e) ==
  LET fill == FillGrid(ts, e) IN
  {t \in Coords : GridClass(ts, e, t) = 0 /\ t \notin fill}

\* mutant: the trail is converted only when some cell is enclosed
ClaimTilesKeepTrail(ts, e, inside) ==
  [t \in Coords |->
     IF t \in inside THEN [owner |-> e, is_trail |-> FALSE]
     ELSE IF ts[t].is_trail /\ ts[t].owner = e /\ inside # {}
          THEN [ts[t] EXCEPT !.is_trail = FALSE]
          ELSE ts[t]]

\* Steps 4 and 5 on the tiles; inside is the set of cells of Step 4
ClaimTiles(ts, e, inside) ==
  [t \in Coords |->
     IF t \in inside THEN [owner |-> e, is_trail |-> FALSE]
     ELSE IF ts[t].is_trail /\ ts[t].owner = e
          THEN [ts[t] EXCEPT !.is_trail = FALSE]
          ELSE ts[t]]

\* mutant: the complete flag is not looked at
ClaimProcessesAnyFlag(ct) == ct # Nothing /\ ct[1].player # NoEntity

ClaimProcesses(ct) == ct # Nothing /\ ct[1].complete /\ ct[1].player # NoEntity

\* mutant: converted trail tiles are counted into the score
ClaimTerritoryCountsTrail(ts, p, ct) ==
  IF ~ClaimProcesses(ct)
  THEN [tiles |-> ts, player |-> p, complete_trail |-> ct]
  ELSE LET e == ct[1].player
           inside == InsideCells(ts, e)
       IN
       [tiles |-> ClaimTiles(ts, e, inside),
        player |-> IF e = PlayerEntity
                   THEN [p EXCEPT !.score = @ + Cardinality(inside)
                                            + Cardinality(TrailTiles(ts, e))]
                   ELSE p,
        complete_trail |-> Some([ct[1] EXCEPT !.complete = FALSE])]

ClaimTerritory(ts, p, ct) ==
  IF ~ClaimProcesses(ct)
  THEN [tiles |-> ts, player |-> p, complete_trail |-> ct]
  ELSE LET e == ct[1].player
           inside == InsideCells(ts, e)
       IN
       [tiles |-> ClaimTiles(ts, e, inside),
        player |-> IF e = PlayerEntity
                   THEN [p EXCEPT !.score = @ + Cardinality(inside)]
                   ELSE p,
        complete_trail |-> Some([ct[1] EXCEPT !.complete = FALSE])]

ClaimTerritorySystem ==
  /\ CanRun("claim")
  /\ \E r \in {ClaimTerritory(tiles, player, complete_trail)} :
     /\ tiles' = r.tiles
     /\ player' = r.player
     /\ complete_trail' = r.complete_trail
  /\ IF ClaimProcesses(complete_trail)
     THEN /\ last' = [sys |-> "claim",
                      player |-> complete_trail[1].player,
                      entry_point |-> complete_trail[1].entry_point,
                      raised |-> complete_trail[1].raised,
                      death_unread |-> death_events # <<>>,
                      trail_before |-> Cardinality(
                        TrailTiles(tiles, complete_trail[1].player)),
                      claimed |-> Cardinality(
                        {t \in Coords : tiles[t].owner = NoEntity
                                        /\ tiles'[t].owner # NoEntity})]
          /\ frame_log' = [Written(frame_log, "claim", tiles, tiles')
                              EXCEPT !.claimed = TRUE]
     ELSE /\ last' = [sys |-> "claim_skip"]
          /\ UNCHANGED frame_log
  /\ ran' = ran \cup {"claim"}
  /\ UNCHANGED <<transform, commands, death_events, deaths_sent, has_run,
                 tick, sched, flood, game_state>>

\* ----------------------------------------------------------------------
\* End of the frame: the deferred commands are applied
\* ----------------------------------------------------------------------
RECURSIVE ApplyCommands(_, _)
ApplyCommands(cs, st) ==
  IF cs = <<>> THEN st
  ELSE LET c == Head(cs) IN
       ApplyCommands(Tail(cs),
         IF c.kind = "insert_resource"
         THEN [st EXCEPT !.complete_trail = Some(c.value)]
         ELSE [st EXCEPT !.transform = c.value])

Scheduled == IF has_run THEN Systems \ {"init"} ELSE Systems

EndFrame ==
  /\ tick < TickLimit
  /\ Scheduled \subseteq ran
  /\ \E st \in {ApplyCommands(commands,
                 [complete_trail |-> complete_trail, transform |-> transform])} :
       /\ complete_trail' = st.complete_trail
       /\ transform' = st.transform
  /\ commands' = <<>>
  /\ ran' = {}
  /\ tick' = tick + 1
  /\ last' = Idle
  /\ frame_log' = NewFrame
  /\ UNCHANGED <<tiles, player, death_events, deaths_sent, has_run, sched, flood,
                 game_state>>

Next ==
  \/ PlayerInputSystem
  \/ StartTrailSystem
  \/ PlayerMovementSystem
  \/ CollisionDetectionSystem
  \/ HandlePlayerDeath
  \/ ClaimTerritorySystem
  \/ GameTimerSystem
  \/ InitPlayerTerritory
  \/ SendDeathEvent
  \/ EndFrame

\* every execution order the schedule permits
Spec == Init /\ [][Next]_vars

\* the systems run in the order of their registration
SpecListed == InitListed /\ [][Next]_vars

\* ----------------------------------------------------------------------
\* claim_territory_system as a function of the grid and the request:
\* the tiles left of the starting block are painted freely, the request
\* is any value of the CompleteTrail resource, and the claimer runs once
\* ----------------------------------------------------------------------
PaintArea ==
  {t \in Coords : /\ t[1] < CenterTile[1] - TerritoryRadius
                  /\ t[1] >= CenterTile[1] - TerritoryRadius - PaintColumns}

PaintKinds ==
  {[owner |-> PlayerEntity, is_trail |-> FALSE],
   [owner |-> PlayerEntity, is_trail |-> TRUE],
   [owner |-> OtherEntity, is_trail |-> FALSE]}

Requests ==
  {Nothing} \cup
  {Some([player |-> e, complete |-> c, entry_point |-> ep, raised |-> 0]) :
     e \in {PlayerEntity, NoEntity}, c \in BOOLEAN,
     ep \in {Nothing, Some(CenterTile)}}

InitClaim ==
  /\ \E painted \in SUBSET PaintArea :
       /\ Cardinality(painted) <= MaxPainted
       /\ \E paint \in [painted -> PaintKinds] :
            tiles = [t \in Coords |->
                       IF t \in painted THEN paint[t]
                       ELSE IF InStartBlock(t)
                            THEN [owner |-> PlayerEntity, is_trail |-> FALSE]
                            ELSE EmptyTile]
  /\ player = [direction |-> Zero,
               buffered_direction |-> Nothing,
               score |-> (TerritoryRadius * 2 + 1) * (TerritoryRadius * 2 + 1),
               is_drawing_trail |-> FALSE,
               last_tile_pos |-> CenterTile,
               is_moving_to_next_tile |-> FALSE]
  /\ transform = TileCenter(CenterTile)
  /\ complete_trail \in Requests
  /\ commands = <<>>
  /\ death_events = <<>>
  /\ deaths_sent = 0
  /\ has_run = TRUE
  /\ ran = {}
  /\ tick = 0
  /\ sched = "free"
  /\ flood = NoFlood
  /\ game_state = NewGameState
  /\ last = Idle
  /\ frame_log = NewFrame

SpecClaim == InitClaim /\ [][ClaimTerritorySystem]_vars

\* ----------------------------------------------------------------------
\* start_trail_system and player_movement_system as functions of the grid
\* and the player: the tiles of a small area left of the starting block are
\* painted freely, the player stands at the centre of one of them, heading
\* any way, drawing or not, and each of the two systems runs once
\* ----------------------------------------------------------------------
EntryArea ==
  (CenterTile[1] - TerritoryRadius - EntryColumns .. CenterTile[1] - TerritoryRadius - 1)
    \X (CenterTile[2] - 1 .. CenterTile[2] + 1)

EntryKinds == PaintKinds

InitEntry ==
  /\ \E painted \in SUBSET EntryArea :
       /\ Cardinality(painted) <= MaxPaintedEntry
       /\ \E paint \in [painted -> EntryKinds] :
            tiles = [t \in Coords |->
                       IF t \in painted THEN paint[t]
                       ELSE IF InStartBlock(t)
                            THEN [owner |-> PlayerEntity, is_trail |-> FALSE]
                            ELSE EmptyTile]
  /\ \E cur \in EntryArea, d \in Cardinals, drawing \in BOOLEAN :
       /\ player = [direction |-> d,
                    buffered_direction |-> Nothing,
                    score |-> (TerritoryRadius * 2 + 1) * (TerritoryRadius * 2 + 1),
                    is_drawing_trail |-> drawing,
                    last_tile_pos |-> <<cur[1] - d[1], cur[2] - d[2]>>,
                    is_moving_to_next_tile |-> TRUE]
       /\ transform = TileCenter(cur)
  /\ complete_trail = Nothing
  /\ commands = <<>>
  /\ death_events = <<>>
  /\ deaths_sent = 0
  /\ has_run = TRUE
  /\ ran = {}
  /\ tick = 0
  /\ sched = "free"
  /\ flood = NoFlood
  /\ game_state = NewGameState
  /\ last = Idle
  /\ frame_log = NewFrame

NextEntry ==
  \/ StartTrailSystem
  \/ PlayerMovementSystem

SpecEntry == InitEntry /\ [][NextEntry]_vars

\* ----------------------------------------------------------------------
\* the systems in the order of their registration, with a frame time that
\* varies from frame to frame, and no death event
\* ----------------------------------------------------------------------
InitFine == Setup /\ sched = "fine"

NextFine ==
  \/ PlayerInputSystem
  \/ StartTrailSystem
  \/ PlayerMovementSystem
  \/ CollisionDetectionSystem
  \/ HandlePlayerDeath
  \/ ClaimTerritorySystem
  \/ GameTimerSystem
  \/ InitPlayerTerritory
  \/ EndFrame

SpecFine == InitFine /\ [][NextFine]_vars

\* ----------------------------------------------------------------------
\* Scenario B: the keyboard is scripted so that the player walks from the
\* centre up to the top row of its block, leaves the block to the left,
\* walks a ring of width 1 around a 3x3 block of unowned tiles and re-enters
\* its block at the bottom row.  The systems run in the order of their
\* registration; no key is pressed in the first frame.
\* ----------------------------------------------------------------------
BlockLeft == CenterTile[1] - TerritoryRadius
RingTop == CenterTile[2] + TerritoryRadius
RingBottom == CenterTile[2] - TerritoryRadius
RingColumn == BlockLeft - 4

RingInterior ==
  (RingColumn + 1 .. BlockLeft - 1) \X (RingBottom + 1 .. RingTop - 1)

LeaveTile == <<BlockLeft, RingTop>>
ReEntryTile == <<BlockLeft, RingBottom>>

\* the keys held while the player stands on tile t
RouteKeys(t) ==
  IF tick = 0 THEN {}
  ELSE IF t[1] = CenterTile[1] /\ t[2] < RingTop THEN {"up"}
  ELSE IF t[2] = RingTop /\ t[1] > RingColumn THEN {"left"}
  ELSE IF t[1] = RingColumn /\ t[2] > RingBottom THEN {"down"}
  ELSE IF t[2] = RingBottom /\ t[1] < CenterTile[1] THEN {"right"}
  ELSE {}

ScriptedInput ==
  /\ PlayerInputSystem
  /\ player' = InputPlayer(player, RouteKeys(TileOf(transform)))
  /\ last'.new_direction = NewDirection(RouteKeys(TileOf(transform)))

InitScenario == Setup /\ sched = "scenario"

NextScenarioB ==
  \/ ScriptedInput
  \/ StartTrailSystem
  \/ PlayerMovementSystem
  \/ CollisionDetectionSystem
  \/ HandlePlayerDeath
  \/ ClaimTerritorySystem
  \/ GameTimerSystem
  \/ InitPlayerTerritory
  \/ EndFrame

SpecScenarioB == InitScenario /\ [][NextScenarioB]_vars

\* ======================================================================
\* Properties
\* ======================================================================
FrameBoundary == ran = {}

OwnedTiles(ts, e) == {t \in Coords : ts[t].owner = e}

\* the (2*R0+1)^2 square around the centre tile
StartSquare ==
  (CenterTile[1] - TerritoryRadius .. CenterTile[1] + TerritoryRadius)
    \X (CenterTile[2] - TerritoryRadius .. CenterTile[2] + TerritoryRadius)

\* C1: at every tick boundary every trail tile has an owner
C1_TrailHasOwner ==
  FrameBoundary =>
    \A t \in Coords : tiles[t].is_trail => tiles[t].owner # NoEntity

C1_Witness ==
  /\ FrameBoundary
  /\ tick > 0
  /\ \E t \in Coords : tiles[t].is_trail /\ ~InStartBlock(t)

PhaseOrder == <<"input", "movement", "collision", "death", "claim">>

C3_PhaseOrder ==
  \A i, j \in DOMAIN PhaseOrder :
    (i < j /\ PhaseOrder[j] \in ran) => PhaseOrder[i] \in ran

C5_NoEntryPointKills ==
  (last.sys = "claim" /\ last.entry_point = Nothing) =>
    /\ last.claimed = 0
    /\ Cardinality(TrailTiles(tiles, last.player)) = last.trail_before
    /\ \E i \in DOMAIN death_events :
         /\ death_events[i].player_entity = last.player
         /\ death_events[i].reason = "CrossedTrail"

\* C6: a processed claim turns every trail tile of the player into the
\* player's territory, and leaves every tile of another owner as it was
C6_TrailBecomesTerritory ==
  [][(ClaimTerritorySystem
        /\ complete_trail # Nothing
        /\ complete_trail[1].complete
        /\ complete_trail[1].player # NoEntity)
     => LET e == complete_trail[1].player IN
        \A t \in Coords :
          /\ (tiles[t].owner = e /\ tiles[t].is_trail)
               => tiles'[t] = [owner |-> e, is_trail |-> FALSE]
          /\ (tiles[t].owner # e /\ tiles[t].owner # NoEntity)
               => tiles'[t] = tiles[t]]_vars

C6_Witness ==
  /\ last.sys = "claim"
  /\ last.trail_before > 0
  /\ last.claimed = 0
  /\ \E t \in Coords : tiles[t].owner = OtherEntity

\* the empty cells 4-connected to an empty cell of the outer border
EmptyCells(ts) == {t \in Coords : ts[t].owner = NoEntity}

OnBorder(t) ==
  \/ t[1] = 0 \/ t[1] = GridWidth - 1
  \/ t[2] = 0 \/ t[2] = GridHeight - 1

\* the cells of the set empty that a path of cells of empty joins to front
RECURSIVE ConnectedTo(_, _)
ConnectedTo(front, empty) ==
  LET more ==
        {t \in empty \ front :
           \E d \in Cardinals : <<t[1] + d[1], t[2] + d[2]>> \in front}
  IN IF more = {} THEN front ELSE ConnectedTo(front \cup more, empty)

OutsideCells(ts) ==
  ConnectedTo({t \in EmptyCells(ts) : OnBorder(t)}, EmptyCells(ts))

\* C7: the tiles a processed claim gives to the player are exactly the
\* empty cells not connected to an empty border cell; the others stay empty
C7_ClaimsExactlyEnclosed ==
  [][(ClaimTerritorySystem
        /\ complete_trail # Nothing
        /\ complete_trail[1].complete
        /\ complete_trail[1].player # NoEntity)
     => LET e == complete_trail[1].player IN
        /\ {t \in Coords : tiles[t].owner # e /\ tiles'[t].owner = e}
             = EmptyCells(tiles) \ OutsideCells(tiles)
        /\ \A t \in OutsideCells(tiles) : tiles'[t].owner = NoEntity]_vars

C7_Witness ==
  /\ last.sys = "claim"
  /\ last.claimed >= 1
  /\ \E t \in Coords : tiles[t].owner = NoEntity /\ ~OnBorder(t)

\* C8: run without a request, with the complete flag unset or with no
\* player, the claimer changes no tile, no score and no field of the request
C8_NoRequestNoChange ==
  [][(ClaimTerritorySystem
        /\ (\/ complete_trail = Nothing
            \/ ~complete_trail[1].complete
            \/ complete_trail[1].player = NoEntity))
     => UNCHANGED <<tiles, player, complete_trail>>]_vars

C8_Witness ==
  /\ last.sys = "claim_skip"
  /\ complete_trail # Nothing
  /\ ~complete_trail[1].complete
  /\ complete_trail[1].player = PlayerEntity
  /\ TrailTiles(tiles, PlayerEntity) # {}
  /\ EmptyCells(tiles) \ OutsideCells(tiles) # {}

\* C9: a request is consumed in the frame in which the movement system
\* raised it, and no request is pending at a frame boundary
C9_ConsumedInRaisingTick ==
  /\ last.sys = "claim" => last.raised = tick
  /\ FrameBoundary =>
       (complete_trail = Nothing \/ ~complete_trail[1].complete)

\* C10: a processed claim adds to the score exactly the number of tiles
\* whose owner changed from none to the player
C10_ScoreCountsClaimed ==
  [][(ClaimTerritorySystem
        /\ complete_trail # Nothing
        /\ complete_trail[1].complete
        /\ complete_trail[1].player = PlayerEntity)
     => player'.score = player.score
          + Cardinality({t \in Coords : tiles[t].owner = NoEntity
                                        /\ tiles'[t].owner = PlayerEntity})]_vars

C10_Witness ==
  /\ last.sys = "claim"
  /\ last.player = PlayerEntity
  /\ last.claimed > 0
  /\ last.trail_before > 0
  /\ player.score > (2 * TerritoryRadius + 1) * (2 * TerritoryRadius + 1)

\* C11: scenario B end to end: at the frame boundary that follows the frame
\* in which the player re-entered its block, the 9 interior tiles are the
\* player's, no trail tile is left and the score is 9 above the 25 it had
C11_ScenarioB ==
  (/\ FrameBoundary
   /\ complete_trail # Nothing
   /\ complete_trail[1].entry_point = Some(ReEntryTile)) =>
    /\ \A t \in RingInterior : IsTerritoryOf(tiles, t, PlayerEntity)
    /\ TrailTiles(tiles, PlayerEntity) = {}
    /\ player.score = (2 * TerritoryRadius + 1) * (2 * TerritoryRadius + 1) + 9

\* the same, one frame later: the request has been consumed
ScenarioBOneFrameLater ==
  (/\ FrameBoundary
   /\ complete_trail # Nothing
   /\ complete_trail[1].entry_point = Some(ReEntryTile)
   /\ complete_trail[1].raised + 1 < tick) =>
    /\ \A t \in RingInterior : IsTerritoryOf(tiles, t, PlayerEntity)
    /\ TrailTiles(tiles, PlayerEntity) = {}
    /\ player.score = (2 * TerritoryRadius + 1) * (2 * TerritoryRadius + 1) + 9

ScenarioBClaimed ==
  /\ FrameBoundary
  /\ \A t \in RingInterior : IsTerritoryOf(tiles, t, PlayerEntity)

\* C12: when init_player_territory has run, the player owns exactly the
\* tiles within Chebyshev distance 2 of the centre tile, none of them is a
\* trail tile, and the score is the number of tiles the player owns
C12_InitialTerritory ==
  [][InitPlayerTerritory =>
       /\ OwnedTiles(tiles', PlayerEntity) = StartSquare
       /\ TrailTiles(tiles', PlayerEntity) = {}
       /\ player'.score = Cardinality(OwnedTiles(tiles', PlayerEntity))]_vars

\* every player position of the lattice inside the grid
LatticePoints ==
  (0 .. GridWidth * TileUnits - 1) \X (0 .. GridHeight * TileUnits - 1)

\* distance <= 0.6 * tile_size
WithinScenarioD(pos, t) ==
  25 * DistSq(pos, TileCenter(t)) <= 9 * TileUnits * TileUnits

\* C13 (premise of scenario D): a player position within 0.6 tile sizes of
\* the centre of a tile that is outside the safe zone of the player's tile
ScenarioDPosition(pos) ==
  \E t \in Coords : ~RecentPosition(t, TileOf(pos)) /\ WithinScenarioD(pos, t)

\* no position of the grid satisfies the premise of scenario D: a tile
\* outside the safe zone is at least 1.5 tile sizes away
NoScenarioDPosition == \A pos \in LatticePoints : ~ScenarioDPosition(pos)

\* the match duration has elapsed: MatchFrames frames have been completed
MatchExpired == tick >= MatchFrames

\* C14: from the expiry of the match timer on, no step changes a tile or the
\* player's position, direction, drawing flag or score
C14_FrozenAfterExpiry ==
  [][MatchExpired =>
       /\ tiles' = tiles
       /\ transform' = transform
       /\ player'.direction = player.direction
       /\ player'.is_drawing_trail = player.is_drawing_trail
       /\ player'.score = player.score]_vars

\* the timer of GameState never runs: game_running stays false and no time
\* is counted, however many frames pass
TimerNeverRuns == ~game_state.game_running /\ game_state.elapsed = 0

\* ----------------------------------------------------------------------
\* direction changes
\* ----------------------------------------------------------------------
Reverse(d) == <<-d[1], -d[2]>>

\* C15: no step turns a non-zero direction d into -d, neither an input
\* applied at once nor a buffered direction applied at a tile-centre arrival
C15_NoDirectReversal ==
  [][player.direction # Zero => player'.direction # Reverse(player.direction)]_vars

\* player_input_system has just been given the reversal of the direction
\* the player holds, and the player still holds that direction
C15_Witness ==
  /\ last.sys = "input"
  /\ last.new_direction # Zero
  /\ player.direction # Zero
  /\ last.new_direction = Reverse(player.direction)

\* a buffered direction has been applied at a tile-centre arrival and has
\* turned the player
C15_BufferedTurn ==
  /\ last.sys = "movement"
  /\ last.applied # Nothing
  /\ player.direction = last.applied[1]
  /\ player.last_tile_pos # TileOf(transform)

\* C16: a direction that is no reversal, given while the player moves towards
\* the next tile, leaves the direction as it is and is stored in the buffer;
\* a tile-centre arrival with a buffered direction makes it the direction and
\* empties the buffer; in between only a newer input or the death reset
\* changes the buffer
C16_BufferedInputApplied ==
  [][/\ ( /\ last'.sys = "input"
          /\ last'.new_direction # Zero
          /\ ~IsOpposite(player.direction, last'.new_direction)
          /\ player.is_moving_to_next_tile
          /\ player.direction # Zero )
         => /\ player'.direction = player.direction
            /\ player'.buffered_direction = Some(last'.new_direction)
     /\ ( /\ last'.sys = "movement"
          /\ last'.arrived
          /\ player.buffered_direction # Nothing )
         => /\ player'.direction = player.buffered_direction[1]
            /\ player'.buffered_direction = Nothing
     /\ player'.buffered_direction # player.buffered_direction
         => last'.sys \in {"input", "movement", "death"}]_vars

\* a buffered turn has been applied at a tile-centre arrival: the player now
\* moves along the other axis and the buffer is empty
C16_Witness ==
  /\ last.sys = "movement"
  /\ last.arrived
  /\ last.applied # Nothing
  /\ player.direction = last.applied[1]
  /\ player.buffered_direction = Nothing
  /\ TileOf(transform)[1] # CenterTile[1]
  /\ TileOf(transform)[2] # CenterTile[2]

\* ----------------------------------------------------------------------
\* writers of a tile within a frame
\* ----------------------------------------------------------------------
\* trail start and movement count as one phase
TilePhases == {"movement", "collision", "death", "claim"}

WritersOf(t) == {ph \in TilePhases : <<t, ph>> \in frame_log.writers}

\* C17: within a frame the owner or the trail flag of a tile is changed by
\* at most one of the phases movement (with trail start), collision, death
\* handling and claiming
C17_OneWriterPerTile ==
  \A t \in Coords : Cardinality(WritersOf(t)) <= 1

\* the same, for the frames of a run in which no PlayerDeathEvent was sent
OneWriterWithoutDeath == deaths_sent = 0 => C17_OneWriterPerTile

\* ----------------------------------------------------------------------
\* leaving and entering the territory
\* ----------------------------------------------------------------------
\* the step is a run of system s
Runs(s) == s \notin ran /\ s \in ran'

\* the direction the arrival block works with: the buffered one if present
HeadingAtArrival ==
  IF player.buffered_direction # Nothing
  THEN player.buffered_direction[1] ELSE player.direction

AheadTile ==
  <<TileOf(transform)[1] + HeadingAtArrival[1],
    TileOf(transform)[2] + HeadingAtArrival[2]>>

\* the movement step that follows finds the player, not drawing, at the
\* centre of a tile of its territory and heading for a tile of the grid
\* that is not its territory
LeavesTerritory ==
  /\ Runs("movement")
  /\ last'.arrived
  /\ ~player.is_drawing_trail
  /\ IsTerritoryOf(tiles, TileOf(transform), PlayerEntity)
  /\ InGrid(AheadTile)
  /\ ~IsTerritoryOf(tiles, AheadTile, PlayerEntity)

TerritoryKept ==
  (Runs("movement") \/ Runs("start_trail")) =>
    \A t \in Coords :
      IsTerritoryOf(tiles, t, PlayerEntity) => IsTerritoryOf(tiles', t, PlayerEntity)

\* C18: a player that is not drawing and leaves its territory is drawing
\* after the step, the step raises no claim request, and the tile it leaves
\* stays territory; movement and trail start never turn a territory tile
\* into a trail tile
C18_LeavingStartsTrail ==
  [][/\ LeavesTerritory =>
          /\ player'.is_drawing_trail
          /\ commands' = commands
          /\ IsTerritoryOf(tiles', TileOf(transform), PlayerEntity)
     /\ TerritoryKept]_vars

\* the part of C18 about the tiles alone
TerritoryNeverMarked == [][TerritoryKept]_vars

\* the step that leaves the territory ends with the drawing flag reset and
\* a claim request for the tile that was left
LeavingRaisesClaim ==
  [][LeavesTerritory =>
       /\ ~player'.is_drawing_trail
       /\ commands' = commands \o <<InsertCompleteTrail(Some(TileOf(transform)))>>]_vars

\* the claim requests with an entry point that the step adds to the commands
RaisedWithEntry ==
  {i \in Len(commands) + 1 .. Len(commands') :
     /\ commands'[i].kind = "insert_resource"
     /\ commands'[i].value.entry_point # Nothing}

\* the movement step that follows finds the player drawing at the centre of
\* a tile of its territory
EntersTerritory ==
  /\ Runs("movement")
  /\ last'.arrived
  /\ player.is_drawing_trail
  /\ IsTerritoryOf(tiles, TileOf(transform), PlayerEntity)

\* C19: a drawing player that enters a tile of its territory raises a claim
\* request for itself with that tile as entry point and stops drawing; no
\* other step raises a claim request with an entry point
C19_ClaimOnReentry ==
  [][/\ EntersTerritory =>
          /\ \E i \in RaisedWithEntry :
               /\ commands'[i].value.player = PlayerEntity
               /\ commands'[i].value.complete
               /\ commands'[i].value.entry_point = Some(TileOf(transform))
          /\ ~player'.is_drawing_trail
     /\ (Len(commands') >= Len(commands) /\ RaisedWithEntry # {})
          => EntersTerritory]_vars

\* the first half of C19 alone
ReentryRaisesClaim ==
  [][EntersTerritory =>
       /\ \E i \in RaisedWithEntry :
            commands'[i].value.entry_point = Some(TileOf(transform))
       /\ ~player'.is_drawing_trail]_vars

\* a drawing player has just entered its territory and raised the request
ReentryReached ==
  /\ last.sys = "movement"
  /\ last.arrived
  /\ ~player.is_drawing_trail
  /\ commands # <<>>
  /\ commands[Len(commands)].kind = "insert_resource"
  /\ commands[Len(commands)].value.entry_point = Some(player.last_tile_pos)
  /\ TrailTiles(tiles, PlayerEntity) # {}

\* ----------------------------------------------------------------------
\* running into the own trail
\* ----------------------------------------------------------------------
\* the movement step that follows finds the player drawing at the centre of
\* a tile that it entered in this frame and that already was a trail tile of
\* its own when the frame began
EntersOwnTrail ==
  /\ Runs("movement")
  /\ last'.arrived
  /\ player.is_drawing_trail
  /\ player.last_tile_pos # TileOf(transform)
  /\ IsTrailOf(tiles, TileOf(transform), PlayerEntity)
  /\ \A ph \in TilePhases \cup {"init"} :
       <<TileOf(transform), ph>> \notin frame_log.writers

\* C20: a drawing player that enters a trail tile of its own gets a death
\* event with reason TrailCollision, and the step neither marks a tile nor
\* raises a claim request
C20_OwnTrailKills ==
  [][EntersOwnTrail =>
       /\ Len(death_events') = Len(death_events) + 1
       /\ death_events'[Len(death_events')] =
            [reason |-> "TrailCollision", player_entity |-> PlayerEntity]
       /\ tiles' = tiles
       /\ commands' = commands]_vars

\* what the step does instead: no death event, the player keeps drawing
\* unless the loop detector stops it
OwnTrailIgnored ==
  [][EntersOwnTrail =>
       /\ death_events' = death_events
       /\ tiles' = tiles
       /\ (player'.is_drawing_trail \/ HasLoop(tiles))]_vars

\* ----------------------------------------------------------------------
\* marking the trail
\* ----------------------------------------------------------------------
\* the movement step that follows finds the player drawing at the centre of
\* a tile that is not its territory
EntersForeignTile ==
  /\ Runs("movement")
  /\ last'.arrived
  /\ player.is_drawing_trail
  /\ ~IsTerritoryOf(tiles, TileOf(transform), PlayerEntity)

\* C21: a drawing player that enters a tile that is not its territory,
\* unowned or owned by another player, leaves the step with that tile owned
\* by it and flagged as trail
C21_EnteredTileMarked ==
  [][EntersForeignTile =>
       tiles'[TileOf(transform)] = [owner |-> PlayerEntity, is_trail |-> TRUE]]_vars

\* the movement step has just changed the tile the player entered, and the
\* tile is now a trail tile of the player
C21_Witness ==
  /\ last.sys = "movement"
  /\ last.arrived
  /\ <<player.last_tile_pos, "movement">> \in frame_log.writers
  /\ IsTrailOf(tiles, player.last_tile_pos, PlayerEntity)
  /\ "start_trail" \notin ran

\* ----------------------------------------------------------------------
\* detection of the entry into a tile
\* ----------------------------------------------------------------------
\* a movement step that takes the player out of a tile leaves a tile whose
\* entry has been processed: last_tile_pos, which only the processing
\* writes, names it
EntryNotSkipped ==
  (Runs("movement") /\ TileOf(transform') # TileOf(transform))
    => player'.last_tile_pos = TileOf(transform)

\* the processing does not run for a tile for which it has run already in
\* the same visit (away from the starting tile last_tile_pos names the tile
\* only after its processing)
EntryNotRepeated ==
  (Runs("movement") /\ last'.arrived /\ TileOf(transform) # CenterTile)
    => player.last_tile_pos # TileOf(transform)

\* C22: for every per-frame displacement the processing of a tile entry
\* runs exactly once for each tile the player passes into: never not at
\* all, never twice for one visit
C22_EntryProcessedOnce == [][EntryNotSkipped /\ EntryNotRepeated]_vars

EntryNeverSkipped == [][EntryNotSkipped]_vars

EntryNeverRepeated == [][EntryNotRepeated]_vars

\* ----------------------------------------------------------------------
\* the clamp to the grid
\* ----------------------------------------------------------------------
ClampedCell(t) ==
  <<Clamp(t[1], 0, GridWidth - 1), Clamp(t[2], 0, GridHeight - 1)>>

\* the step has moved the player by d from its position, with the clamp
MovedBy(d) ==
  LET moved == <<transform[1] + player'.direction[1] * d,
                 transform[2] + player'.direction[2] * d>>
  IN IF InGrid(TileOf(moved))
     THEN transform' = moved
     ELSE /\ transform' = TileCenter(ClampedCell(TileOf(moved)))
          /\ ~player'.is_moving_to_next_tile

\* C23: after every movement step the player's cell is a cell of the grid;
\* a displacement that would end in a cell outside the grid ends at the
\* centre of the clamped cell with is_moving_to_next_tile reset
C23_ClampedToGrid ==
  [][Runs("movement") =>
       /\ InGrid(TileOf(transform'))
       /\ player'.direction # Zero => \E d \in Steps : MovedBy(d)
       /\ player'.direction = Zero => transform' = transform]_vars

\* a movement step has just been clamped: the player stands at the centre
\* of a border tile, facing the border, with is_moving_to_next_tile reset
C23_Witness ==
  /\ last.sys = "movement"
  /\ ~player.is_moving_to_next_tile
  /\ player.direction # Zero
  /\ transform = TileCenter(TileOf(transform))
  /\ ~InGrid(<<TileOf(transform)[1] + player.direction[1],
               TileOf(transform)[2] + player.direction[2]>>)

\* ----------------------------------------------------------------------
\* collision_detection_system as a function of the grid and the player:
\* the first n tiles outside the starting block, column by column, are trail
\* tiles of the player, the player stands at any position of the grid,
\* drawing or not, and the system runs once
\* ----------------------------------------------------------------------
TrailIndex(t) ==
  Cardinality({u \in Coords :
                 /\ ~InStartBlock(u)
                 /\ (u[1] < t[1] \/ (u[1] = t[1] /\ u[2] < t[2]))})

PaintedTrail(n) == {t \in Coords : ~InStartBlock(t) /\ TrailIndex(t) < n}

InitCollision ==
  /\ \E n \in 0 .. MaxTrailPainted :
       tiles = [t \in Coords |->
                  IF t \in PaintedTrail(n)
                  THEN [owner |-> PlayerEntity, is_trail |-> TRUE]
                  ELSE IF InStartBlock(t)
                       THEN [owner |-> PlayerEntity, is_trail |-> FALSE]
                       ELSE EmptyTile]
  /\ \E pos \in LatticePoints, d \in {<<1, 0>>}, drawing \in BOOLEAN :
       /\ player = [direction |-> d,
                    buffered_direction |-> Nothing,
                    score |-> (TerritoryRadius * 2 + 1) * (TerritoryRadius * 2 + 1),
                    is_drawing_trail |-> drawing,
                    last_tile_pos |-> TileOf(pos),
                    is_moving_to_next_tile |-> TRUE]
       /\ transform = pos
  /\ complete_trail = Nothing
  /\ commands = <<>>
  /\ death_events = <<>>
  /\ deaths_sent = 0
  /\ has_run = TRUE
  /\ ran = {}
  /\ tick = 0
  /\ sched = "free"
  /\ flood = NoFlood
  /\ game_state = NewGameState
  /\ last = Idle
  /\ frame_log = NewFrame

SpecCollision == InitCollision /\ [][CollisionDetectionSystem]_vars

\* C24: collision_detection_system kills no player that is not drawing and
\* no player with fewer trail tiles than the minimum, wherever the player is
C24_KillNeedsDrawingAndTrail ==
  [][(last'.sys = "collision" /\ last'.killed) =>
       /\ player.is_drawing_trail
       /\ Cardinality(TrailTiles(tiles, PlayerEntity)) >= MinTrailCount]_vars

\* the system has run for a player that is not drawing, has a trail of the
\* minimum length and stands close to one of its trail tiles, and the
\* player keeps its tiles
C24_Witness ==
  /\ "collision" \in ran
  /\ ~player.is_drawing_trail
  /\ Cardinality(TrailTiles(tiles, PlayerEntity)) >= MinTrailCount
  /\ \E t \in TrailTiles(tiles, PlayerEntity) : TooClose(transform, t)
  /\ commands = <<>>

\* the system has run for a drawing player that stands close to one of its
\* trail tiles and has one trail tile less than the minimum, and the player
\* keeps its tiles
ShortTrailSurvives ==
  /\ "collision" \in ran
  /\ player.is_drawing_trail
  /\ Cardinality(TrailTiles(tiles, PlayerEntity)) = MinTrailCount - 1
  /\ \E t \in TrailTiles(tiles, PlayerEntity) : TooClose(transform, t)
  /\ commands = <<>>

\* collision_detection_system kills no player at all: a trail tile that is
\* not a recent position is never close enough
CollisionNeverKills == [][last'.sys # "collision"]_vars

\* ----------------------------------------------------------------------
\* the loop detector of player_movement_system
\* ----------------------------------------------------------------------
\* a trail tile of the player has more than two trail tiles of the player
\* among its four neighbours
CrowdedTrail(ts) ==
  \E t \in TrailTiles(ts, PlayerEntity) :
    Cardinality({d \in Cardinals :
                   IsTrailOf(ts, <<t[1] + d[1], t[2] + d[2]>>, PlayerEntity)}) > 2

\* the movement step that follows is one of a drawing player, and after the
\* tile under the player has been processed the trail has such a tile
DrawsWithLoop ==
  /\ Runs("movement")
  /\ player.is_drawing_trail
  /\ CrowdedTrail(tiles')

\* C25: a movement step of a drawing player whose trail has a tile with
\* more than two trail neighbours raises a claim request for the player
\* without entry point and ends with the drawing flag reset
C25_LoopRaisesClaim ==
  [][DrawsWithLoop =>
       /\ Len(commands') = Len(commands) + 1
       /\ commands'[Len(commands')].kind = "insert_resource"
       /\ commands'[Len(commands')].value.player = PlayerEntity
       /\ commands'[Len(commands')].value.complete
       /\ commands'[Len(commands')].value.entry_point = Nothing
       /\ ~player'.is_drawing_trail]_vars

\* the loop detector has just raised its request
C25_Witness ==
  /\ last.sys = "movement"
  /\ CrowdedTrail(tiles)
  /\ ~player.is_drawing_trail
  /\ commands # <<>>
  /\ commands[Len(commands)].kind = "insert_resource"
  /\ commands[Len(commands)].value.entry_point = Nothing

\* ----------------------------------------------------------------------
\* kill_player as a function of the grid and the player: the function is
\* called once for each grid and player of InitEntry
\* ----------------------------------------------------------------------
KillPlayerCall ==
  /\ CanRun("collision")
  /\ \E r \in {KillPlayer(tiles, player)} :
       /\ tiles' = r.tiles
       /\ player' = r.player
       /\ commands' = commands \o r.cmds
       /\ frame_log' = [Written(frame_log, "collision", tiles, r.tiles)
                           EXCEPT !.died = TRUE]
  /\ last' = [sys |-> "collision", killed |-> TRUE]
  /\ ran' = ran \cup {"collision"}
  /\ UNCHANGED <<transform, complete_trail, death_events, deaths_sent,
                 has_run, tick, sched, flood, game_state>>

SpecKill == InitEntry /\ [][KillPlayerCall]_vars

\* the step is the handling of a death, by handle_player_death or by
\* kill_player
DeathHandled == last'.sys \in {"death", "collision"} /\ last' # last

\* the Transform that the deferred commands give the player
RespawnPositions(cmds) ==
  {cmds[i].value : i \in {j \in DOMAIN cmds : cmds[j].kind = "insert_transform"}}

DeathResetReached ==
  /\ last.sys = "death"
  /\ player.direction = Zero
  /\ TrailTiles(tiles, PlayerEntity) = {}
  /\ TileOf(transform) # CenterTile
  /\ RespawnPositions(commands) = {TileCenter(CenterTile)}

\* ----------------------------------------------------------------------
\* handle_player_death and claim_territory_system as functions of the
\* grid, the CompleteTrail resource and the unread death events: tiles at
\* the left edge of the starting block, inside and outside of it, are
\* painted freely, the resource is absent or holds a request of the player
\* or of another entity, one or two death events of the player are unread,
\* and the two systems run at their place in the frame
\* ----------------------------------------------------------------------
DeathArea ==
  (CenterTile[1] - TerritoryRadius - 1 .. CenterTile[1] - TerritoryRadius)
    \X (CenterTile[2] - 1 .. CenterTile[2] + 1)

DeathKinds ==
  PaintKinds \cup {[owner |-> OtherEntity, is_trail |-> TRUE], EmptyTile}

DeathRequests ==
  {Nothing} \cup
  {Some([player |-> e, complete |-> c, entry_point |-> ep, raised |-> 0]) :
     e \in {PlayerEntity, OtherEntity}, c \in BOOLEAN,
     ep \in {Nothing, Some(CenterTile)}}

InitDeath ==
  /\ \E painted \in SUBSET DeathArea :
       /\ Cardinality(painted) <= MaxPaintedDeath
       /\ \E paint \in [painted -> DeathKinds] :
            tiles = [t \in Coords |->
                       IF t \in painted THEN paint[t]
                       ELSE IF InStartBlock(t)
                            THEN [owner |-> PlayerEntity, is_trail |-> FALSE]
                            ELSE EmptyTile]
  /\ \E d \in {Zero, <<-1, 0>>}, drawing \in BOOLEAN :
       player = [direction |-> d,
                 buffered_direction |-> Nothing,
                 score |-> (TerritoryRadius * 2 + 1) * (TerritoryRadius * 2 + 1),
                 is_drawing_trail |-> drawing,
                 last_tile_pos |-> CenterTile,
                 is_moving_to_next_tile |-> TRUE]
  /\ transform = TileCenter(CenterTile)
  /\ complete_trail \in DeathRequests
  /\ commands = <<>>
  /\ \E n \in 1 .. 2 :
       /\ death_events = [i \in 1 .. n |->
                            [player_entity |-> PlayerEntity, reason |-> "TrailCollision"]]
       /\ deaths_sent = n
  /\ has_run = TRUE
  /\ ran = {"input", "start_trail", "movement", "collision"}
  /\ tick = 0
  /\ sched = "listed"
  /\ flood = NoFlood
  /\ game_state = NewGameState
  /\ last = Idle
  /\ frame_log = NewFrame

NextDeath ==
  \/ HandlePlayerDeath
  \/ ClaimTerritorySystem

SpecDeath == InitDeath /\ [][NextDeath]_vars

\* the CompleteTrail resource holds a pending request of another entity
OthersRequest(ct) ==
  ct # Nothing /\ ct[1].player = OtherEntity /\ ct[1].complete

OthersClaimCancelled ==
  [][(last'.sys = "death" /\ OthersRequest(complete_trail))
       => complete_trail' = CancelClaim(complete_trail)]_vars

\* what the death reset of the player makes of the tile t of the grid ts
AfterReset(ts, t) ==
  IF ts[t].owner = OtherEntity THEN ts[t]
  ELSE IF InStartBlock(t) THEN [owner |-> PlayerEntity, is_trail |-> FALSE]
  ELSE EmptyTile

\* C28: the death reset of the player releases every tile of the player,
\* then grants the tiles of the starting block that have no owner: a tile
\* of another player keeps its owner and its trail flag, inside the block
\* and outside of it, a tile of the player outside the block is left
\* without owner, and the score is the number of tiles granted
C28_ReleaseThenGrant ==
  [][last'.sys = "death"
       => /\ \A t \in Coords : tiles'[t] = AfterReset(tiles, t)
          /\ player'.score =
               Cardinality({t \in Coords : tiles'[t].owner = PlayerEntity})
          /\ player'.score =
               Cardinality({t \in Coords : /\ InStartBlock(t)
                                           /\ tiles[t].owner # OtherEntity})]_vars

\* the reset has run over a starting block with a tile of another player:
\* the tile is still the other player's and the score is below the size of
\* the block
C28_Witness ==
  /\ last.sys = "death"
  /\ \E t \in Coords : InStartBlock(t) /\ tiles[t].owner = OtherEntity
  /\ \E t \in Coords : ~InStartBlock(t) /\ tiles[t].owner = OtherEntity
  /\ player.score < Cardinality({t \in Coords : InStartBlock(t)})
  /\ player.score =
       Cardinality({t \in Coords : tiles[t].owner = PlayerEntity})

\* the reset released a trail tile of the player outside the starting block
\* and granted a tile of the block that had no owner before it
ReleaseAndGrantHappen ==
  [][~(/\ last'.sys = "death"
       /\ \E t \in Coords : /\ ~InStartBlock(t)
                             /\ tiles[t] = [owner |-> PlayerEntity, is_trail |-> TRUE]
                             /\ tiles'[t] = EmptyTile
       /\ \E t \in Coords : /\ InStartBlock(t)
                             /\ tiles[t] = EmptyTile
                             /\ tiles'[t].owner = PlayerEntity)]_vars

\* the loop check of the movement step, which runs after the tile under the
\* player has been processed, has ended the trail: the grid holds a crowded
\* trail tile and the last command of the step is a request without entry
LoopEndedTrail ==
  /\ last'.sys = "movement"
  /\ CrowdedTrail(tiles')
  /\ Len(commands') > Len(commands)
  /\ commands'[Len(commands')].kind = "insert_resource"
  /\ commands'[Len(commands')].value.entry_point = Nothing

\* the player is off its territory and not drawing
IdleOffTerritory ==
  /\ ~player.is_drawing_trail
  /\ ~IsTerritoryOf(tiles, TileOf(transform), PlayerEntity)

\* C29: a step that makes a tile a trail tile of the player leaves the
\* player drawing, unless the loop check that follows the marking in the
\* same movement step has ended the trail; and a movement step of a player
\* that is off its territory and not drawing marks nothing, leaves the
\* player not drawing, raises no request and no death
C29_MarkOnlyWhileDrawing ==
  [][/\ (\E t \in Coords : /\ ~IsTrailOf(tiles, t, PlayerEntity)
                            /\ IsTrailOf(tiles', t, PlayerEntity))
          => (player'.is_drawing_trail \/ LoopEndedTrail)
     /\ (last'.sys = "movement" /\ IdleOffTerritory)
          => /\ tiles' = tiles
             /\ ~player'.is_drawing_trail
             /\ commands' = commands
             /\ death_events' = death_events]_vars

\* a movement step has processed the arrival of a player that was not
\* drawing at a tile that is not its own: the tile is still not the player's
C29_Witness ==
  /\ last.sys = "movement"
  /\ last.arrived
  /\ player.direction # Zero
  /\ ~player.is_drawing_trail
  /\ tiles[player.last_tile_pos].owner # PlayerEntity
  /\ death_events = <<>>

\* a movement step has marked the tile of arrival for a drawing player
MarkedWhileDrawing ==
  [][~(/\ last'.sys = "movement"
       /\ player.is_drawing_trail
       /\ player'.is_drawing_trail
       /\ ~IsTrailOf(tiles, player'.last_tile_pos, PlayerEntity)
       /\ IsTrailOf(tiles', player'.last_tile_pos, PlayerEntity))]_vars

\* the loop check has ended the trail in the step that marked a tile
MarkedAndLoopEnded ==
  [][~(/\ LoopEndedTrail
       /\ ~player'.is_drawing_trail
       /\ \E t \in Coords : /\ ~IsTrailOf(tiles, t, PlayerEntity)
                             /\ IsTrailOf(tiles', t, PlayerEntity))]_vars

\* ----------------------------------------------------------------------
\* player_movement_system with two players in its query: the iteration for
\* the player is PlayerMovementSystem; of the iteration for the second
\* player the model keeps the branch that raises a request, taken when that
\* player, drawing, stands on a tile of its territory.  The query fixes no
\* order between the two iterations.
\* ----------------------------------------------------------------------
OtherPlayerReturns ==
  /\ tick < TickLimit
  /\ "start_trail" \in ran
  /\ "collision" \notin ran
  /\ "movement_other" \notin ran
  /\ \E t \in Coords :
       /\ IsTerritoryOf(tiles, t, OtherEntity)
       /\ commands' = commands \o
            <<[kind |-> "insert_resource",
               value |-> [player |-> OtherEntity, complete |-> TRUE,
                          entry_point |-> Some(t), raised |-> tick]]>>
  /\ ran' = ran \cup {"movement_other"}
  /\ last' = [sys |-> "movement_other"]
  /\ UNCHANGED <<tiles, player, transform, complete_trail, death_events,
                 deaths_sent, has_run, tick, sched, flood, game_state, frame_log>>

PairKinds ==
  {[owner |-> PlayerEntity, is_trail |-> TRUE],
   [owner |-> OtherEntity, is_trail |-> TRUE],
   [owner |-> OtherEntity, is_trail |-> FALSE]}

\* the frame is at the movement system; the player heads right, at the
\* centre of the tile left of its starting block or of the first tile of
\* the block, and tiles left of the block are trail tiles of the player or
\* tiles of the second player
InitPair ==
  /\ \E painted \in SUBSET EntryArea :
       /\ Cardinality(painted) <= MaxPaintedPair
       /\ \E paint \in [painted -> PairKinds] :
            tiles = [t \in Coords |->
                       IF t \in painted THEN paint[t]
                       ELSE IF InStartBlock(t)
                            THEN [owner |-> PlayerEntity, is_trail |-> FALSE]
                            ELSE EmptyTile]
  /\ \E cur \in {<<BlockLeft - 1, CenterTile[2]>>, <<BlockLeft, CenterTile[2]>>},
        drawing \in BOOLEAN :
       /\ player = [direction |-> <<1, 0>>,
                    buffered_direction |-> Nothing,
                    score |-> (TerritoryRadius * 2 + 1) * (TerritoryRadius * 2 + 1),
                    is_drawing_trail |-> drawing,
                    last_tile_pos |-> <<cur[1] - 1, cur[2]>>,
                    is_moving_to_next_tile |-> TRUE]
       /\ transform = TileCenter(cur)
  /\ complete_trail = Nothing
  /\ commands = <<>>
  /\ death_events = <<>>
  /\ deaths_sent = 0
  /\ has_run = TRUE
  /\ ran = {"input", "start_trail"}
  /\ tick = 0
  /\ sched = "pair"
  /\ flood = NoFlood
  /\ game_state = NewGameState
  /\ last = Idle
  /\ frame_log = NewFrame

NextPair ==
  \/ PlayerInputSystem
  \/ StartTrailSystem
  \/ PlayerMovementSystem
  \/ OtherPlayerReturns
  \/ CollisionDetectionSystem
  \/ HandlePlayerDeath
  \/ ClaimTerritorySystem
  \/ GameTimerSystem
  \/ EndFrame

SpecPair == InitPair /\ [][NextPair]_vars

\* the requests raised in the running frame
RaisedInFrame ==
  {commands[i].value :
     i \in {j \in DOMAIN commands : commands[j].kind = "insert_resource"}}

OneClaimPerFrame ==
  [][last'.sys = "claim" => ~frame_log.claimed]_vars

\* when a frame with requests of both players ends, the request raised last
\* is the resource and the other one is stored nowhere
LastRequestWins ==
  [][(tick' = tick + 1 /\ Cardinality(RaisedInFrame) = 2)
       => /\ complete_trail' = Some(commands[Len(commands)].value)
          /\ commands' = <<>>]_vars

\* a request that is the only one raised in its frame is pending when the
\* frame ends
SingleRequestKept ==
  [][(tick' = tick + 1 /\ Cardinality(RaisedInFrame) = 1)
       => \A c \in RaisedInFrame : complete_trail' = Some(c)]_vars

\* ----------------------------------------------------------------------
\* Steps 3 of claim_territory_system taken one pop of the work list at a
\* time, on grids of every size from 1 x 1 to MaxFloodWidth x
\* MaxFloodHeight and for every fill_grid that Step 2 can leave.  The
\* record logs every push (pushed), the number of pops and every index at
\* which fill_grid is read (read).
\* ----------------------------------------------------------------------
FloodCells(w, h) == (0 .. w - 1) \X (0 .. h - 1)

InitFlood ==
  /\ tiles = [t \in Coords |-> EmptyTile]
  /\ player = [direction |-> Zero,
               buffered_direction |-> Nothing,
               score |-> 0,
               is_drawing_trail |-> FALSE,
               last_tile_pos |-> CenterTile,
               is_moving_to_next_tile |-> FALSE]
  /\ transform = TileCenter(CenterTile)
  /\ complete_trail = Nothing
  /\ commands = <<>>
  /\ death_events = <<>>
  /\ deaths_sent = 0
  /\ has_run = TRUE
  /\ ran = {}
  /\ tick = 0
  /\ sched = "free"
  /\ game_state = NewGameState
  /\ last = Idle
  /\ frame_log = NewFrame
  /\ \E w \in 1 .. MaxFloodWidth, h \in 1 .. MaxFloodHeight :
       \E blocked \in SUBSET FloodCells(w, h) :
         flood = [phase |-> "seed", w |-> w, h |-> h, fill |-> blocked,
                  queue |-> <<>>, pushed |-> <<>>, pops |-> 0, read |-> {}]

\* "Start from all edge cells"
FloodSeed ==
  /\ flood.phase = "seed"
  /\ \E r \in {SeedEdges(EdgeCellsOf(flood.w, flood.h), <<>>, flood.fill)} :
       flood' = [flood EXCEPT
                   !.phase = "fill",
                   !.queue = r.queue,
                   !.fill = r.fill,
                   !.pushed = r.queue,
                   !.read = {EdgeCellsOf(flood.w, flood.h)[i] :
                               i \in DOMAIN EdgeCellsOf(flood.w, flood.h)}]
  /\ UNCHANGED <<tiles, player, transform, complete_trail, commands,
                 death_events, deaths_sent, has_run, ran, tick, sched,
                 game_state, last, frame_log>>

\* one iteration of "while let Some((x, y)) = queue.pop()"
FloodPop ==
  /\ flood.phase = "fill"
  /\ flood.queue # <<>>
  /\ LET c == flood.queue[Len(flood.queue)]
         rest == SubSeq(flood.queue, 1, Len(flood.queue) - 1)
         ns == Neighbors(c)
     IN \E r \in {VisitNeighborsIn(ns, rest, flood.fill, flood.w, flood.h)} :
          flood' = [flood EXCEPT
                      !.queue = r.queue,
                      !.fill = r.fill,
                      !.pushed = @ \o SubSeq(r.queue, Len(rest) + 1, Len(r.queue)),
                      !.pops = @ + 1,
                      !.read = @ \cup {ns[i] : i \in {j \in DOMAIN ns :
                                          ns[j][1] < flood.w /\ ns[j][2] < flood.h}}]
  /\ UNCHANGED <<tiles, player, transform, complete_trail, commands,
                 death_events, deaths_sent, has_run, ran, tick, sched,
                 game_state, last, frame_log>>

\* queue.pop() returns None: the loop is left
FloodEnd ==
  /\ flood.phase = "fill"
  /\ flood.queue = <<>>
  /\ flood' = [flood EXCEPT !.phase = "done"]
  /\ UNCHANGED <<tiles, player, transform, complete_trail, commands,
                 death_events, deaths_sent, has_run, ran, tick, sched,
                 game_state, last, frame_log>>

NextFlood ==
  \/ FloodSeed
  \/ FloodPop
  \/ FloodEnd

\* the system runs its loop to the end without interruption
SpecFlood == InitFlood /\ [][NextFlood]_vars /\ WF_vars(NextFlood)

\* no cell is pushed twice, the pops do not exceed the number of cells, and
\* every read of fill_grid and every queued cell is inside the grid
FloodBounded ==
  /\ \A i, j \in DOMAIN flood.pushed :
       i # j => flood.pushed[i] # flood.pushed[j]
  /\ flood.pops <= Len(flood.pushed)
  /\ flood.pops <= flood.w * flood.h
  /\ flood.read \subseteq FloodCells(flood.w, flood.h)
  /\ flood.fill \subseteq FloodCells(flood.w, flood.h)
  /\ \A i \in DOMAIN flood.queue : flood.queue[i] \in FloodCells(flood.w, flood.h)

\* C31: the flood fill of the claimer ends on every grid of at least 1 x 1
\* cells: no cell is pushed twice, the pops are at most width x height, and
\* no neighbour outside the grid, the wrapped index of column 0 or row 0
\* included, is read or queued
C31_FloodFillTerminates ==
  /\ []FloodBounded
  /\ <>(flood.phase = "done")

\* the fill of a grid without blocked cells has ended after one pop for
\* every cell, the cells of column 0 and row 0 among them
C31_Witness ==
  /\ flood.phase = "done"
  /\ flood.w > 1
  /\ flood.h > 1
  /\ flood.pops = flood.w * flood.h
  /\ Len(flood.pushed) = flood.pops

\* the fill of the grid of one cell has ended
OneCellFloodEnds ==
  /\ flood.phase = "done"
  /\ flood.w = 1
  /\ flood.h = 1
  /\ flood.pops = 1

\* the tile t is outside the block of 3 x 3 tiles around the tile cur
OutsideSafeZone(t, cur) == Abs(t[1] - cur[1]) > 1 \/ Abs(t[2] - cur[2]) > 1

\* the distance between pos and the centre of the tile t is at least
\* 1.5 * tile_size
FarFrom(pos, t) == 4 * DistSq(pos, TileCenter(t)) >= 9 * TileUnits * TileUnits

\* C32: wherever the player stands in the grid, every trail tile of the
\* player outside the 3 x 3 tiles around its tile has its centre at least
\* 1.5 tiles away, and a run of collision_detection_system kills no one: it
\* leaves tiles and player as they are and queues no command
C32_CollisionCannotFire ==
  [][/\ \A t \in TrailTiles(tiles, PlayerEntity) :
          OutsideSafeZone(t, TileOf(transform)) => FarFrom(transform, t)
     /\ last'.sys # "collision"
     /\ tiles' = tiles
     /\ player' = player
     /\ commands' = commands]_vars

\* the system has run for a drawing player with a trail of the minimum
\* length that stands on a trail tile, exactly 1.5 tiles from the centre of
\* a trail tile outside its 3 x 3 tiles, and the player keeps its tiles
C32_Witness ==
  /\ "collision" \in ran
  /\ player.is_drawing_trail
  /\ Cardinality(TrailTiles(tiles, PlayerEntity)) >= MinTrailCount
  /\ IsTrailOf(tiles, TileOf(transform), PlayerEntity)
  /\ \E t \in TrailTiles(tiles, PlayerEntity) :
       /\ OutsideSafeZone(t, TileOf(transform))
       /\ 4 * DistSq(transform, TileCenter(t)) = 9 * TileUnits * TileUnits
  /\ commands = <<>>

\* a request of the player is pending in the CompleteTrail resource
ClaimPending ==
  /\ complete_trail # Nothing
  /\ complete_trail[1].complete
  /\ complete_trail[1].player = PlayerEntity

\* C33: between two frames, when the commands of the frame have been
\* applied, a trail tile of the player is on the grid only while the player
\* is drawing or a request of the player is pending
C33_TrailHasDrawerOrClaim ==
  (ran = {} /\ TrailTiles(tiles, PlayerEntity) # {})
    => (player.is_drawing_trail \/ ClaimPending)

\* a frame has ended with trail tiles of the player on the grid, the player
\* no longer drawing and its request pending
C33_Witness ==
  /\ ran = {}
  /\ tick > 0
  /\ TrailTiles(tiles, PlayerEntity) # {}
  /\ ~player.is_drawing_trail
  /\ ClaimPending

\* a frame has ended with trail tiles of the player on the grid, the player
\* drawing and no request pending
DrawingAtFrameEnd ==
  /\ ran = {}
  /\ tick > 0
  /\ TrailTiles(tiles, PlayerEntity) # {}
  /\ player.is_drawing_trail
  /\ ~ClaimPending

\* C34: between two frames, once init_player_territory has run, the score
\* of the player is at most the number of tiles the player owns, territory
\* and trail
C34_ScoreAtMostOwned ==
  (ran = {} /\ has_run)
    => player.score <= Cardinality({t \in Coords : tiles[t].owner = PlayerEntity})

\* a frame after the setup has ended with the score of the starting block
\* or more and trail tiles of the player on top of it
C34_Witness ==
  /\ ran = {}
  /\ has_run
  /\ tick > 0
  /\ player.score >= (2 * TerritoryRadius + 1) * (2 * TerritoryRadius + 1)
  /\ TrailTiles(tiles, PlayerEntity) # {}
  /\ player.score < Cardinality({t \in Coords : tiles[t].owner = PlayerEntity})

\* no step of a system takes the score above the number of tiles owned
ScoreStaysAtMostOwned ==
  [][(has_run /\ player.score
                   <= Cardinality({t \in Coords : tiles[t].owner = PlayerEntity}))
       => player'.score
            <= Cardinality({t \in Coords : tiles'[t].owner = PlayerEntity})]_vars

\* a frame has ended with a score above that of the starting block
ScoreHasGrown ==
  /\ ran = {}
  /\ has_run
  /\ player.score > (2 * TerritoryRadius + 1) * (2 * TerritoryRadius + 1)

\* C35: the direction of the player is zero or one of the four unit vectors
\* along an axis, and the buffered direction is None or one of the four,
\* in every state and so between any two frames, whichever keys are pressed
C35_NoDiagonalDirection ==
  /\ player.direction \in {Zero} \cup Cardinals
  /\ \/ player.buffered_direction = Nothing
     \/ \E d \in Cardinals : player.buffered_direction = Some(d)

\* a frame has ended with the player heading along one axis and a turn to
\* the other axis buffered
C35_Witness ==
  /\ ran = {}
  /\ tick > 0
  /\ player.direction \in Cardinals
  /\ player.buffered_direction # Nothing
  /\ player.buffered_direction[1] \in Cardinals
  /\ player.buffered_direction[1][1] * player.direction[1]
       + player.buffered_direction[1][2] * player.direction[2] = 0

====
